---- MODULE Spec2Model ----
(***************************************************************************)
(* Model of src/doc/cpf.rs: the Cpf value type, its validating             *)
(* constructor and its conversions.                                        *)
(*                                                                         *)
(* Strings are sequences of Unicode code points; their length in bytes is  *)
(* the sum of the UTF-8 widths of the code points.  A u64 is held as four  *)
(* base-10^6 limbs, least significant first, because TLC's integers are    *)
(* 32 bits wide and an 11-digit number does not fit.                       *)
(***************************************************************************)
EXTENDS Integers, Sequences, FiniteSets

VARIABLES arg, pc, result, shown, plain, num

vars == <<arg, pc, result, shown, plain, num>>

----------------------------------------------------------------------------
(* Bounds of the enumerated inputs *)

\* the nine-digit prefixes 0 .. MaxSmallPrefix (long runs of leading zeros)
MaxSmallPrefix == 12
\* the number of nine-digit prefixes sampled across the whole range
MaxSamples == 40
\* the longest tail of arbitrary characters put after a cut-off string
MaxTail == 3

----------------------------------------------------------------------------
(* Characters and strings *)

Dot == 46
Dash == 45
AsciiZero == 48

\* char::len_utf8, as str::len counts bytes
len_utf8(c) ==
    IF c < 128 THEN 1 ELSE IF c < 2048 THEN 2 ELSE IF c < 65536 THEN 3 ELSE 4

RECURSIVE str_len(_)
str_len(s) == IF s = <<>> THEN 0 ELSE len_utf8(Head(s)) + str_len(Tail(s))

\* char::to_digit(10) is Some for the ASCII digits only
is_digit(c) == c >= AsciiZero /\ c <= AsciiZero + 9
to_digit(c) == c - AsciiZero

\* s.chars().filter_map(|c| c.to_digit(10)).collect()
RECURSIVE filter_digits(_)
filter_digits(s) ==
    IF s = <<>> THEN <<>>
    ELSE IF is_digit(Head(s)) THEN <<to_digit(Head(s))>> \o filter_digits(Tail(s))
    ELSE filter_digits(Tail(s))

----------------------------------------------------------------------------
(* u64 *)

LimbBase == 1000000
ZeroU64 == <<0, 0, 0, 0>>
\* u64::MAX = 18 446744 073709 551615
U64Max == <<551615, 73709, 446744, 18>>

u64_gt(a, b) ==
    \/ a[4] > b[4]
    \/ a[4] = b[4] /\ a[3] > b[3]
    \/ a[4] = b[4] /\ a[3] = b[3] /\ a[2] > b[2]
    \/ a[4] = b[4] /\ a[3] = b[3] /\ a[2] = b[2] /\ a[1] > b[1]

\* v * 10 + d, the top limb left unreduced so that overflow shows
u64_push_digit(v, d) ==
    LET x1 == v[1] * 10 + d
        x2 == v[2] * 10 + (x1 \div LimbBase)
        x3 == v[3] * 10 + (x2 \div LimbBase)
        x4 == v[4] * 10 + (x3 \div LimbBase)
    IN  <<x1 % LimbBase, x2 % LimbBase, x3 % LimbBase, x4>>

\* u64::from_str on a string of characters: the digits are accumulated most
\* significant first; an empty string, a non-digit or an overflow is an error
RECURSIVE u64_parse(_, _)
u64_parse(acc, s) ==
    IF s = <<>> THEN [ok |-> TRUE, value |-> acc]
    ELSE IF ~is_digit(Head(s)) THEN [ok |-> FALSE, value |-> ZeroU64]
    ELSE LET next == u64_push_digit(acc, to_digit(Head(s)))
         IN  IF u64_gt(next, U64Max) THEN [ok |-> FALSE, value |-> ZeroU64]
             ELSE u64_parse(next, Tail(s))

u64_from_str(s) ==
    IF s = <<>> THEN [ok |-> FALSE, value |-> ZeroU64] ELSE u64_parse(ZeroU64, s)

\* the decimal digits of a limb, without leading zeros
RECURSIVE limb_to_string(_)
limb_to_string(x) ==
    IF x < 10 THEN <<AsciiZero + x>>
    ELSE Append(limb_to_string(x \div 10), AsciiZero + (x % 10))

\* the six decimal digits of a limb that has more significant limbs above it
limb_padded(x) ==
    LET t == limb_to_string(x)
    IN  [i \in 1..(6 - Len(t)) |-> AsciiZero] \o t

\* u64::to_string: the natural decimal rendering
u64_to_string(v) ==
    IF v[4] # 0
    THEN limb_to_string(v[4]) \o limb_padded(v[3]) \o limb_padded(v[2]) \o limb_padded(v[1])
    ELSE IF v[3] # 0
    THEN limb_to_string(v[3]) \o limb_padded(v[2]) \o limb_padded(v[1])
    ELSE IF v[2] # 0
    THEN limb_to_string(v[2]) \o limb_padded(v[1])
    ELSE limb_to_string(v[1])

\* off-by-one width: format!("{:010}", value)
format_010(value) ==
    LET t == u64_to_string(value)
    IN  IF Len(t) >= 10 THEN t ELSE [i \in 1..(10 - Len(t)) |-> AsciiZero] \o t

\* format!("{:011}", value): zero-padded to a width of at least 11
format_011(value) ==
    LET t == u64_to_string(value)
    IN  IF Len(t) >= 11 THEN t ELSE [i \in 1..(11 - Len(t)) |-> AsciiZero] \o t

----------------------------------------------------------------------------
(* Verifier digits *)

FIRST_DIGIT_ARRAY == <<10, 9, 8, 7, 6, 5, 4, 3, 2>>
SECOND_DIGIT_ARRAY == <<11, 10, 9, 8, 7, 6, 5, 4, 3, 2>>

\* weights.iter().zip(numbers).map(|pair| pair.0 * pair.1).sum(): zip stops
\* at the shorter of the two; the sum is at most 9 * 65, far below 2^32
RECURSIVE zip_mul_sum(_, _)
zip_mul_sum(weights, numbers) ==
    IF weights = <<>> \/ numbers = <<>> THEN 0
    ELSE Head(weights) * Head(numbers) + zip_mul_sum(Tail(weights), Tail(numbers))

\* the special case of 10 left out
sum_to_digit_unmapped(sum) == (sum * 10) % 11

sum_to_digit(sum) ==
    LET digit == (sum * 10) % 11
    IN  IF digit = 10 THEN 0 ELSE digit

first_verifier_digit(numbers) == sum_to_digit(zip_mul_sum(FIRST_DIGIT_ARRAY, numbers))

second_verifier_digit(numbers) == sum_to_digit(zip_mul_sum(SECOND_DIGIT_ARRAY, numbers))

check_first_verifier_digit(numbers, got) ==
    LET calculated == first_verifier_digit(numbers)
    IN  IF got # calculated THEN "Err" ELSE "Ok"

\* the outcome of the check dropped (the call written without its `?`)
check_second_verifier_digit_dropped(numbers, got) == "Ok"

check_second_verifier_digit(numbers, got) ==
    LET calculated == second_verifier_digit(numbers)
    IN  IF got # calculated THEN "Err" ELSE "Ok"

----------------------------------------------------------------------------
(* Cpf::new *)

Invalid == [tag |-> "Err", inner |-> ZeroU64]
Panicked == [tag |-> "Panic", inner |-> ZeroU64]
Built(value) == [tag |-> "Ok", inner |-> value]

\* the 14-byte branch: c[3], c[7], c[11] of the character vector, read left
\* to right with short-circuit ||; an index past the end of c panics
check_separators(c) ==
    IF Len(c) < 4 THEN "Panic"
    ELSE IF c[4] # Dot THEN "Err"
    ELSE IF Len(c) < 8 THEN "Panic"
    ELSE IF c[8] # Dot THEN "Err"
    ELSE IF Len(c) < 12 THEN "Panic"
    ELSE IF c[12] # Dash THEN "Err"
    ELSE "Ok"

\* the comparison inverted: n != first_verifier_digit
all_equals_inverted(numbers, first) == \A i \in 1..Len(numbers) : numbers[i] # first

\* numbers.iter().all(|n| n == first_verifier_digit)
all_equals(numbers, first) == \A i \in 1..Len(numbers) : numbers[i] = first

\* numbers.iter().map(|n| n.to_string()).collect()
RECURSIVE numbers_to_string(_)
numbers_to_string(numbers) ==
    IF numbers = <<>> THEN <<>>
    ELSE limb_to_string(Head(numbers)) \o numbers_to_string(Tail(numbers))

new(s) ==
    IF str_len(s) # 11 /\ str_len(s) # 14 THEN Invalid
    ELSE LET seps == IF str_len(s) = 14 THEN check_separators(s) ELSE "Ok"
         IN
         IF seps = "Panic" THEN Panicked
         ELSE IF seps = "Err" THEN Invalid
         ELSE LET numbers == filter_digits(s)
              IN
              IF Len(numbers) # 11 THEN Invalid
              ELSE IF all_equals(numbers, numbers[10]) THEN Invalid
              ELSE IF check_first_verifier_digit(numbers, numbers[10]) # "Ok" THEN Invalid
              ELSE IF check_second_verifier_digit(numbers, numbers[11]) # "Ok" THEN Invalid
              ELSE LET value == u64_from_str(numbers_to_string(numbers))
                   IN  IF ~value.ok THEN Invalid ELSE Built(value.value)

\* impl FromStr for Cpf
from_str(s) == new(s)

\* the padding forgotten: value.to_string()
try_from_unpadded(value) == new(u64_to_string(value))

\* impl TryFrom<u64> for Cpf
try_from(value) == new(format_011(value))

\* #[derive(Default)]: every field takes its default
default == Built(ZeroU64)

\* impl From<Cpf> for String
string_from(inner) ==
    LET value_as_str == format_011(inner)
        a == SubSeq(value_as_str, 1, 3)
        b == SubSeq(value_as_str, 4, 6)
        c == SubSeq(value_as_str, 7, 9)
        d == SubSeq(value_as_str, 10, Len(value_as_str))
    IN  a \o <<Dot>> \o b \o <<Dot>> \o c \o <<Dash>> \o d

\* zero-padded like the display form
numbers_as_string_padded(inner) == format_011(inner)

\* Cpf::numbers_as_string
numbers_as_string(inner) == u64_to_string(inner)

\* impl From<Cpf> for u64
u64_from(inner) == inner

\* impl Display for Cpf: fmt writes String::from(*self)
fmt(inner) == string_from(inner)

----------------------------------------------------------------------------
(* The inputs the operations are applied to.  They are built with the      *)
(* arithmetic below, not with the operators above.                         *)

RECURSIVE Pow10(_)
Pow10(k) == IF k = 0 THEN 1 ELSE 10 * Pow10(k - 1)

DigitChar(d) == 48 + d

\* a digit sequence, most significant first, as limbs
LimbsOf(ds) ==
    LET L == Len(ds)
        Place(j) == IF j < L THEN ds[L - j] ELSE 0
        Limb(k) == Place(6 * k) + 10 * Place(6 * k + 1) + 100 * Place(6 * k + 2)
                   + 1000 * Place(6 * k + 3) + 10000 * Place(6 * k + 4)
                   + 100000 * Place(6 * k + 5)
    IN  <<Limb(0), Limb(1), Limb(2), Limb(3)>>

\* the eleven least significant decimal digits of a number, most significant first
PaddedDigits(n) ==
    [i \in 1..11 |-> (n[((11 - i) \div 6) + 1] \div Pow10((11 - i) % 6)) % 10]

Below10e11(n) == n[4] = 0 /\ n[3] = 0 /\ n[2] < 100000

PlainStr(d) == [i \in 1..Len(d) |-> DigitChar(d[i])]

Punct(d, x, y, z) ==
    << DigitChar(d[1]), DigitChar(d[2]), DigitChar(d[3]), x,
       DigitChar(d[4]), DigitChar(d[5]), DigitChar(d[6]), y,
       DigitChar(d[7]), DigitChar(d[8]), DigitChar(d[9]), z,
       DigitChar(d[10]), DigitChar(d[11]) >>

CanonicalStr(d) == Punct(d, 46, 46, 45)

\* nine prefix digits of the number p, then the two verifier digits
DigitSeq(p, v1, v2) == [i \in 1..9 |-> (p \div Pow10(9 - i)) % 10] \o <<v1, v2>>

\* the nine-digit prefixes: the small ones, the nine uniform ones, those of
\* the documented examples, and a sample spread over the range
PrefixNumbers ==
    (0..MaxSmallPrefix)
    \cup {c * 111111111 : c \in 0..9}
    \cup {984844854, 51194390, 16783460}
    \cup {(k * 12345701) % 1000000000 : k \in 1..MaxSamples}

\* 98484485439, 05119439039, 01678346063 (valid) and 98484485401 (invalid)
ProbeDigits ==
    { DigitSeq(984844854, 3, 9), DigitSeq(51194390, 3, 9),
      DigitSeq(16783460, 6, 3), DigitSeq(984844854, 0, 1) }

ProbeStrings == {PlainStr(d) : d \in ProbeDigits} \cup {CanonicalStr(d) : d \in ProbeDigits}

\* '.', '-', ' ', '/'
SepChars == {46, 45, 32, 47}

\* 'a', '.', '-', ' ', U+00E9, U+0663 (ARABIC-INDIC DIGIT THREE),
\* U+FF13 (FULLWIDTH DIGIT THREE), '0', '9'
SubstChars == {97, 46, 45, 32, 233, 1635, 65299, 48, 57}

\* 'a', '9', U+00E9 (2 bytes), U+20AC (3 bytes), U+1F600 (4 bytes)
TailChars == {97, 57, 233, 8364, 128512}

\* the three separators put at any three of the 14 positions
Placed(d, p1, p2, p3) ==
    [i \in 1..14 |->
        IF i = p1 \/ i = p2 THEN 46
        ELSE IF i = p3 THEN 45
        ELSE DigitChar(d[i - (IF i > p1 THEN 1 ELSE 0) - (IF i > p2 THEN 1 ELSE 0)
                            - (IF i > p3 THEN 1 ELSE 0)])]

SeparatorPlaces == {p \in (1..12) \X (2..13) \X (3..14) : p[1] < p[2] /\ p[2] < p[3]}

RECURSIVE Tails(_)
Tails(k) ==
    IF k = 0 THEN {<<>>}
    ELSE Tails(k - 1) \cup {Append(t, c) : t \in Tails(k - 1), c \in TailChars}

\* "invalid_str" and "98484485439invalid_str"
InvalidStr == <<105, 110, 118, 97, 108, 105, 100, 95, 115, 116, 114>>

\* the strings cut off and continued: both forms of 98484485439
CutStrings == {PlainStr(DigitSeq(984844854, 3, 9)), CanonicalStr(DigitSeq(984844854, 3, 9))}

\* the numbers of 12 to 20 digits: the probes with zeros appended or a digit
\* put in front, the powers of ten, and u64::MAX
LargeNumbers ==
    {LimbsOf(d \o [i \in 1..k |-> 0]) : d \in ProbeDigits, k \in 1..8}
    \cup {LimbsOf(<<c>> \o d) : c \in 1..9, d \in ProbeDigits}
    \cup {LimbsOf(<<1>> \o [i \in 1..k |-> 0]) : k \in 11..19}
    \cup {<<551615, 73709, 446744, 18>>}

Unset == <<>>

StrArg(s) == [kind |-> "str", s |-> s, n |-> Unset]
NumArg(n) == [kind |-> "u64", s |-> Unset, n |-> n]
DefaultArg == [kind |-> "default", s |-> Unset, n |-> Unset]

\* the argument of the constructor call
ArgChosen ==
    \/ \E p \in PrefixNumbers, v1 \in 0..9, v2 \in 0..9 :
          \/ arg = StrArg(PlainStr(DigitSeq(p, v1, v2)))
          \/ arg = StrArg(CanonicalStr(DigitSeq(p, v1, v2)))
          \/ arg = NumArg(LimbsOf(DigitSeq(p, v1, v2)))
    \/ \E d \in ProbeDigits, x \in SepChars, y \in SepChars, z \in SepChars :
          arg = StrArg(Punct(d, x, y, z))
    \/ \E d \in ProbeDigits, p \in SeparatorPlaces :
          arg = StrArg(Placed(d, p[1], p[2], p[3]))
    \/ \E s \in ProbeStrings, i \in 1..14, c \in SubstChars :
          i <= Len(s) /\ arg = StrArg([s EXCEPT ![i] = c])
    \/ \E s \in CutStrings, k \in 0..14, t \in Tails(MaxTail) :
          k <= Len(s) /\ arg = StrArg(SubSeq(s, 1, k) \o t)
    \/ arg = StrArg(InvalidStr)
    \/ arg = StrArg(PlainStr(DigitSeq(984844854, 3, 9)) \o InvalidStr)
    \/ \E n \in LargeNumbers : arg = NumArg(n)
    \/ arg = DefaultArg

----------------------------------------------------------------------------
(* The state machine: one call of a constructor on the argument, then the  *)
(* conversions of the value it returned, in any order.                     *)

NoResult == [tag |-> "None", inner |-> ZeroU64]

Init ==
    /\ ArgChosen
    /\ pc = "start"
    /\ result = NoResult
    /\ shown = Unset
    /\ plain = Unset
    /\ num = Unset

After(r) == CASE r.tag = "Ok" -> "built" [] r.tag = "Err" -> "failed" [] OTHER -> "panicked"

FromStr ==
    /\ pc = "start"
    /\ arg.kind = "str"
    /\ result' = from_str(arg.s)
    /\ pc' = After(result')
    /\ UNCHANGED <<arg, shown, plain, num>>

TryFrom ==
    /\ pc = "start"
    /\ arg.kind = "u64"
    /\ result' = try_from(arg.n)
    /\ pc' = After(result')
    /\ UNCHANGED <<arg, shown, plain, num>>

Default ==
    /\ pc = "start"
    /\ arg.kind = "default"
    /\ result' = default
    /\ pc' = After(result')
    /\ UNCHANGED <<arg, shown, plain, num>>

\* String::from(cpf)
StringFrom ==
    /\ pc = "built"
    /\ shown' = string_from(result.inner)
    /\ UNCHANGED <<arg, pc, result, plain, num>>

\* cpf.to_string(), through Display::fmt
ToString ==
    /\ pc = "built"
    /\ shown' = fmt(result.inner)
    /\ UNCHANGED <<arg, pc, result, plain, num>>

NumbersAsString ==
    /\ pc = "built"
    /\ plain' = numbers_as_string(result.inner)
    /\ UNCHANGED <<arg, pc, result, shown, num>>

U64From ==
    /\ pc = "built"
    /\ num' = u64_from(result.inner)
    /\ UNCHANGED <<arg, pc, result, shown, plain>>

Next == FromStr \/ TryFrom \/ Default \/ StringFrom \/ ToString \/ NumbersAsString \/ U64From

Spec == Init /\ [][Next]_vars

----------------------------------------------------------------------------
(* The vocabulary of the properties, stated on characters and digits       *)

IsDigitChar(c) == c \in 48..57

\* exactly 11 characters, all of them decimal digits
PlainForm(s) == Len(s) = 11 /\ \A i \in 1..11 : IsDigitChar(s[i])

\* the positions of the digits in DDD.DDD.DDD-DD
DigitPlaces == <<1, 2, 3, 5, 6, 7, 9, 10, 11, 13, 14>>

\* exactly 14 characters: '.', '.', '-' at the 0-indexed positions 3, 7, 11
\* and decimal digits at the other 11
CanonicalForm(s) ==
    /\ Len(s) = 14
    /\ s[4] = 46 /\ s[8] = 46 /\ s[12] = 45
    /\ \A i \in 1..11 : IsDigitChar(s[DigitPlaces[i]])

WellFormed(s) == PlainForm(s) \/ CanonicalForm(s)

\* the 11 digits of a well-formed string
DigitsOf(s) ==
    IF Len(s) = 11 THEN [i \in 1..11 |-> s[i] - 48]
    ELSE [i \in 1..11 |-> s[DigitPlaces[i]] - 48]

Uniform(d) == \A i \in 1..11 : d[i] = d[1]

Reduce(x) == IF (x * 10) % 11 = 10 THEN 0 ELSE (x * 10) % 11

Verifier1(d) ==
    Reduce(10 * d[1] + 9 * d[2] + 8 * d[3] + 7 * d[4] + 6 * d[5] + 5 * d[6]
           + 4 * d[7] + 3 * d[8] + 2 * d[9])

Verifier2(d) ==
    Reduce(11 * d[1] + 10 * d[2] + 9 * d[3] + 8 * d[4] + 7 * d[5] + 6 * d[6]
           + 5 * d[7] + 4 * d[8] + 3 * d[9] + 2 * d[10])

ChecksumsMatch(d) == d[10] = Verifier1(d) /\ d[11] = Verifier2(d)

ValidDigits(d) == ~Uniform(d) /\ ChecksumsMatch(d)

\* the number of zeros a digit sequence starts with
RECURSIVE LeadingZeros(_)
LeadingZeros(d) ==
    IF d = <<>> \/ Head(d) # 0 THEN 0 ELSE 1 + LeadingZeros(Tail(d))

StrCalled == arg.kind = "str" /\ pc # "start"
NumCalled == arg.kind = "u64" /\ pc # "start"

----------------------------------------------------------------------------
(* C1 *)

\* C1: every Cpf value obtained through the public interface holds a number
\* below 10^11 whose zero-padded 11 digits are not all identical and end in
\* the two recomputed verifier digits.
C1_EveryCpfIsValidated ==
    pc = "built" =>
        /\ Below10e11(result.inner)
        /\ ValidDigits(PaddedDigits(result.inner))

----------------------------------------------------------------------------
(* C2 *)

\* C2: for every canonical string DDD.DDD.DDD-DD whose digits are not all
\* identical and carry correct verifier digits, from_str returns Ok and the
\* display string of the result is the input string.
C2_TextRoundTrip ==
    (StrCalled /\ CanonicalForm(arg.s) /\ ValidDigits(DigitsOf(arg.s))) =>
        /\ result.tag = "Ok"
        /\ shown # Unset => shown = arg.s

\* a canonical string starting with a zero has been parsed and displayed
C2_Witness ==
    /\ StrCalled /\ CanonicalForm(arg.s) /\ ValidDigits(DigitsOf(arg.s))
    /\ arg.s[1] = 48
    /\ shown = arg.s

----------------------------------------------------------------------------
(* C3 *)

\* C3: for every Cpf value, from_str of its display string succeeds and the
\* parsed value displays as the same string.
C3_FormatIdempotent ==
    (pc = "built" /\ shown # Unset) =>
        /\ from_str(shown).tag = "Ok"
        /\ string_from(from_str(shown).inner) = shown

----------------------------------------------------------------------------
(* C4 *)

\* C4: from_str returns Ok only for a well-formed input (11 digits, or 14
\* characters with the three separators in place and digits elsewhere), and
\* returns Err(Invalid) for every other input.
C4_StructuralStrictness ==
    StrCalled =>
        /\ result.tag = "Ok" => WellFormed(arg.s)
        /\ ~WellFormed(arg.s) => result.tag = "Err"

----------------------------------------------------------------------------
(* C5 *)

\* C5: for a well-formed input whose digits are not all identical, from_str
\* returns Ok exactly when the 10th and 11th digits equal the two weighted
\* sums reduced by (sum * 10) mod 11 with 10 mapped to 0; the u64 of an Ok
\* result is the number written by the 11 digits.
C5_ChecksumRule ==
    (StrCalled /\ WellFormed(arg.s) /\ ~Uniform(DigitsOf(arg.s))) =>
        /\ result.tag = "Ok" <=> ChecksumsMatch(DigitsOf(arg.s))
        /\ result.tag = "Ok" => result.inner = LimbsOf(DigitsOf(arg.s))
        /\ num # Unset => num = LimbsOf(DigitsOf(arg.s))

\* an accepted input whose first weighted sum reduces to 10, mapped to 0,
\* has been converted to u64
C5_Witness ==
    /\ StrCalled /\ WellFormed(arg.s) /\ result.tag = "Ok"
    /\ LET d == DigitsOf(arg.s)
       IN  ((10 * d[1] + 9 * d[2] + 8 * d[3] + 7 * d[4] + 6 * d[5] + 5 * d[6]
             + 4 * d[7] + 3 * d[8] + 2 * d[9]) * 10) % 11 = 10
    /\ num = LimbsOf(DigitsOf(arg.s))

----------------------------------------------------------------------------
(* C6 *)

\* C6: try_from(n) returns what from_str returns for n written with 11
\* zero-padded digits: below 10^11 it is Ok exactly when those digits are
\* valid, and then holds n; from 10^11 on it is Err(Invalid).
C6_TryFromNumber ==
    NumCalled =>
        IF Below10e11(arg.n)
        THEN /\ result = from_str(PlainStr(PaddedDigits(arg.n)))
             /\ result.tag = "Ok" <=> ValidDigits(PaddedDigits(arg.n))
             /\ result.tag = "Ok" => result.inner = arg.n
             /\ shown # Unset => shown = CanonicalStr(PaddedDigits(arg.n))
        ELSE result.tag = "Err"

\* try_from(1678346063) has been displayed as 016.783.460-63
C6_Witness ==
    /\ NumCalled
    /\ arg.n = <<346063, 1678, 0, 0>>
    /\ shown = CanonicalStr(<<0, 1, 6, 7, 8, 3, 4, 6, 0, 6, 3>>)

----------------------------------------------------------------------------
(* C7 *)

\* C7: eleven copies of one digit, plain or punctuated, are rejected with
\* Err(Invalid).
C7_UniformRejected ==
    (StrCalled /\ WellFormed(arg.s) /\ Uniform(DigitsOf(arg.s))) => result.tag = "Err"

\* a punctuated string of eleven equal digits, whose verifier digits match,
\* has been rejected
C7_Witness ==
    /\ StrCalled /\ CanonicalForm(arg.s) /\ Uniform(DigitsOf(arg.s))
    /\ ChecksumsMatch(DigitsOf(arg.s))
    /\ result.tag = "Err"

----------------------------------------------------------------------------
(* C8 *)

\* C8: for every accepted 11-digit string, the string with its 10th digit
\* replaced by another digit, and the string with its 11th digit replaced by
\* another digit, are rejected with Err(Invalid).
C8_ChecksumSensitivity ==
    (StrCalled /\ PlainForm(arg.s) /\ result.tag = "Ok") =>
        \A v \in 0..9 :
            /\ DigitChar(v) # arg.s[10] =>
                   from_str([arg.s EXCEPT ![10] = DigitChar(v)]).tag = "Err"
            /\ DigitChar(v) # arg.s[11] =>
                   from_str([arg.s EXCEPT ![11] = DigitChar(v)]).tag = "Err"

\* 98484485439 has been accepted, and 98484485401 is rejected
C8_Witness ==
    /\ StrCalled /\ result.tag = "Ok"
    /\ arg.s = PlainStr(<<9, 8, 4, 8, 4, 4, 8, 5, 4, 3, 9>>)
    /\ from_str(PlainStr(<<9, 8, 4, 8, 4, 4, 8, 5, 4, 0, 1>>)).tag = "Err"

----------------------------------------------------------------------------
(* C9 *)

\* C9: numbers_as_string of a parsed Cpf is the decimal rendering of its
\* number without padding: the input digits less their k leading zeros, so
\* shorter than 11 characters when k >= 1 and the 11 input digits when
\* k = 0; the display string keeps all 11 digits.
C9_PlainDigitString ==
    (StrCalled /\ pc = "built" /\ WellFormed(arg.s)) =>
        LET d == DigitsOf(arg.s)
            k == LeadingZeros(d)
        IN  /\ plain # Unset =>
                /\ Len(plain) = 11 - k
                /\ \A i \in 1..(11 - k) : plain[i] = DigitChar(d[k + i])
            /\ shown # Unset => shown = CanonicalStr(d)

\* 05119439039 has given 5119439039 and 051.194.390-39
C9_Witness ==
    /\ StrCalled
    /\ arg.s = PlainStr(<<0, 5, 1, 1, 9, 4, 3, 9, 0, 3, 9>>)
    /\ plain = PlainStr(<<5, 1, 1, 9, 4, 3, 9, 0, 3, 9>>)
    /\ shown = CanonicalStr(<<0, 5, 1, 1, 9, 4, 3, 9, 0, 3, 9>>)

----------------------------------------------------------------------------
(* C10 *)

\* C10: from_str returns Ok or Err(Invalid) for every input string and never
\* panics.
C10_FromStrTotal == StrCalled => result.tag \in {"Ok", "Err"}

====
